---------------------------- MODULE Spec2Model ----------------------------
(***************************************************************************)
(* A model of sylar::Fiber (src/unnamed/part_000, src/include/fiber.h):    *)
(* the three-state fiber, its ucontext switches (resume / yield), the      *)
(* entry function MainFunc, reset, construction and destruction under      *)
(* shared_ptr ownership, the per-thread registry (t_fiber, t_thread_fiber) *)
(* and the two process-wide atomic counters.                               *)
(*                                                                         *)
(* Fiber objects live in numbered slots (an address each, never reused).  *)
(* A task fiber's stack block carries the number of its slot.  An          *)
(* "execution" is a stack with code on it: the stack of fiber f is f, the  *)
(* original stack of thread t is -t.  cpu[t] is the execution thread t is  *)
(* running, pos[e] is where execution e stands.                            *)
(***************************************************************************)
EXTENDS Integers, FiniteSets, Sequences, TLC

\* ------------------------------------------------------------- bounds
MaxFibers == 2
MaxYields == 1

\* ---------------------------------------------------- program constants
DefaultStackSize == 131072

READY == "READY"
RUNNING == "RUNNING"
TERM == "TERM"

NULL == 0
NoCb == -1

Threads == 1..2
\* The slots of fiber objects.  The last one is in use only where a scheduler
\* is present (see InitSched), which needs a hub fiber of its own.
Fibers == 1..(MaxFibers + 1)
ThreadStack(t) == 0 - t
Execs == Fibers \cup {ThreadStack(t) : t \in Threads}
Callbacks == 0..MaxYields
StackSizes == {0}

\* Values of a saved machine context (ucontext_t m_ctx).
\*   CTOR   what getcontext captured inside the root constructor: the frame is
\*          gone once the constructor returns, so switching to it is undefined
\*   ENTRY  bound by makecontext to MainFunc on the fiber's own stack
\*   Saved(e)  the live suspension of execution e, written by swapcontext
\*   STALE  a suspension that has already been continued (or was overwritten)
CTOR == [k |-> "ctor", e |-> 0]
ENTRY == [k |-> "entry", e |-> 0]
STALE == [k |-> "stale", e |-> 0]
Saved(e) == [k |-> "saved", e |-> e]

VARIABLES
    s_fiber_count,      \* static std::atomic<uint64_t> s_fiber_count
    s_fiber_id,         \* static std::atomic<uint64_t> s_fiber_id
    t_fiber,            \* thread_local Fiber *t_fiber
    t_thread_fiber,     \* thread_local Fiber::ptr t_thread_fiber
    alive,              \* per slot: "unborn", "live" or "dead" (lifetime of the object)
    home,               \* per slot: the thread the fiber was constructed on
    m_id, m_stack_size, m_state, m_ctx, m_stack, m_cb, m_runInScheduler,
    refs,               \* per slot: 1 while user code holds a shared_ptr to the fiber
    cur,                \* per slot: MainFunc's local `cur` holds a reference
    heap,               \* per stack block: "none", "allocated", "freed", "double"
    cpu,                \* per thread: the execution it runs (0: thread has exited)
    pos,                \* per execution: where it stands: [k, f, left, cb], with
                        \*   k     "none", "user" (running user code), "in_resume",
                        \*         "in_yield" (inside that call on fiber f),
                        \*         "epilogue" (callback returned), "final"
                        \*   cb    the callback it runs: the number of its yield() calls
                        \*   left  how many of them are still to come
    hub,                \* per thread: what Scheduler::GetMainFiber() returns
    fatal,              \* "none", or why the process has died
    slots,              \* how many slots this run may use
    resumed,            \* per slot: the resume() calls that passed their assertion since
                        \*   the fiber's callback was installed (task fibers)
    last                \* the operation performed by the latest step: [op, t, f, arg]

fields == <<m_id, m_stack_size, m_state, m_ctx, m_stack, m_cb, m_runInScheduler>>
vars == <<s_fiber_count, s_fiber_id, t_fiber, t_thread_fiber, alive, home, fields,
          refs, cur, heap, cpu, pos, hub, fatal, slots, resumed, last>>

Idle == [k |-> "none", f |-> NULL, left |-> 0, cb |-> NoCb]
User(cb) == [k |-> "user", f |-> NULL, left |-> IF cb = NoCb THEN 0 ELSE cb, cb |-> cb]
In(call, f, p, n) == [k |-> call, f |-> f, left |-> n, cb |-> p.cb]
OpA(o, t, f, a) == [op |-> o, t |-> t, f |-> f, arg |-> a]
Op(o, t, f) == OpA(o, t, f, NoCb)

Start ==
    /\ s_fiber_count = 0
    /\ s_fiber_id = 0
    /\ t_fiber = [t \in Threads |-> NULL]
    /\ t_thread_fiber = [t \in Threads |-> NULL]
    /\ alive = [f \in Fibers |-> "unborn"]
    /\ home = [f \in Fibers |-> NULL]
    /\ m_id = [f \in Fibers |-> 0]
    /\ m_stack_size = [f \in Fibers |-> 0]
    /\ m_state = [f \in Fibers |-> READY]
    /\ m_ctx = [f \in Fibers |-> STALE]
    /\ m_stack = [f \in Fibers |-> NULL]
    /\ m_cb = [f \in Fibers |-> NoCb]
    /\ m_runInScheduler = [f \in Fibers |-> FALSE]
    /\ refs = [f \in Fibers |-> 0]
    /\ cur = [f \in Fibers |-> FALSE]
    /\ heap = [f \in Fibers |-> "none"]
    /\ pos = [e \in Execs |-> IF e \in Fibers THEN Idle ELSE User(NoCb)]
    /\ hub = [t \in Threads |-> NULL]
    /\ fatal = "none"
    /\ resumed = [f \in Fibers |-> 0]
    /\ last = Op("init", NULL, NULL)

\* A process of two threads that uses fibers without a scheduler.
Init ==
    /\ Start
    /\ cpu = [t \in Threads |-> ThreadStack(t)]
    /\ slots = MaxFibers

\* One thread of a process that runs a scheduler.
InitSched ==
    /\ Start
    /\ cpu = [t \in Threads |-> IF t = 1 THEN ThreadStack(t) ELSE 0]
    /\ slots = MaxFibers + 1

\* One thread that uses three fibers without a scheduler: its root fiber and
\* two task fibers.
InitPair ==
    /\ Start
    /\ cpu = [t \in Threads |-> IF t = 1 THEN ThreadStack(t) ELSE 0]
    /\ slots = 3

\* ------------------------------------------------------------ helpers

\* The code of thread t is between two calls (on the thread's own stack or
\* inside a callback) and the process is alive.
UserMode(t) ==
    /\ fatal = "none"
    /\ cpu[t] # 0
    /\ pos[cpu[t]].k = "user"

\* The fibers the running code of thread t can name: those it holds an owning
\* reference to, and the current one (through GetThis()).
Reachable(t, f) ==
    /\ alive[f] = "live"
    /\ home[f] = t
    /\ (refs[f] > 0 \/ t_fiber[t] = f)

HasFreeSlot == \E f \in 1..slots : alive[f] = "unborn"

\* The threads run the same code, so the one that constructs the process's first
\* fiber is called thread 1.
MayConstruct(t) == t = 1 \/ \E f \in Fibers : home[f] = 1

NewSlot == CHOOSE f \in Fibers : alive[f] = "unborn" /\ \A g \in Fibers : g < f => alive[g] # "unborn"

\* s_fiber_id++ : the value handed out and the generator afterwards.
TakeId(gen) == gen
\* (a generator that is read but not advanced)
NextIdSame(gen) == gen
NextId(gen) == gen + 1

\* ++s_fiber_count / --s_fiber_count
CountUp(n) == n + 1
\* (a destructor that leaves the counter alone)
CountDownSkipped(n) == n
CountDown(n) == n - 1

\* stack_size ? stack_size : g_fiber_stack_size->getValue()
StackSizeFor(stack_size) == IF stack_size # 0 THEN stack_size ELSE DefaultStackSize

\* StackAllocator::Dealloc on a block in a given heap state.
Dealloc(h) == IF h = "allocated" THEN "freed" ELSE "double"


\* The owning references to f: user code's, MainFunc's `cur`, t_thread_fiber.
StrongRefs(f, nrefs, hascur, rootptr) ==
    nrefs + (IF hascur THEN 1 ELSE 0) + (IF rootptr = f THEN 1 ELSE 0)

\* ------------------------------------------------------- Fiber::~Fiber

\* SYLAR_ASSERT(m_state == TERM) for a fiber with a stack; SYLAR_ASSERT(!m_cb)
\* and SYLAR_ASSERT(m_state == RUNNING) for one without.
\* (a destructor without its assertions)
DtorAssertsSkipped(stack, st, cb) == TRUE
DtorAssertsHold(stack, st, cb) ==
    IF stack # NULL THEN st = TERM ELSE cb = NoCb /\ st = RUNNING

\* The heap after the destructor of f has run with state st.
DtorHeap(f, st) ==
    IF m_stack[f] # NULL /\ DtorAssertsHold(m_stack[f], st, m_cb[f])
    THEN [heap EXCEPT ![m_stack[f]] = Dealloc(heap[m_stack[f]])]
    ELSE heap

\* t_fiber of the destroying thread t after the destructor of f has run.
\* (a destructor that never clears the registration)
DtorThisKept(t, f, st) == t_fiber
DtorThis(t, f, st) ==
    IF m_stack[f] = NULL /\ DtorAssertsHold(m_stack[f], st, m_cb[f]) /\ t_fiber[t] = f
    THEN [t_fiber EXCEPT ![t] = NULL]
    ELSE t_fiber

\* The destructor of f, run by thread t when the last owning reference goes;
\* st and cb are the fiber's state and callback at that moment.  The object's
\* lifetime ends when the destructor starts; a failed assertion aborts the
\* process with the stack still allocated.
Destroy(t, f, st) ==
    /\ s_fiber_count' = CountDown(s_fiber_count)
    /\ alive' = [alive EXCEPT ![f] = "dead"]
    /\ heap' = DtorHeap(f, st)
    /\ t_fiber' = DtorThis(t, f, st)
    /\ fatal' = IF DtorAssertsHold(m_stack[f], st, m_cb[f]) THEN fatal ELSE "assert"

NoDestroy == UNCHANGED <<s_fiber_count, alive, heap, t_fiber, fatal>>

\* The memory of a destroyed object is no longer part of the program's state:
\* its context, callback, stack size and flag are forgotten (its id, last state
\* and stack pointer are kept, for the record of what it was).
Forget(f, gone) ==
    /\ m_ctx' = IF gone THEN [m_ctx EXCEPT ![f] = STALE] ELSE m_ctx
    /\ m_stack_size' = IF gone THEN [m_stack_size EXCEPT ![f] = 0] ELSE m_stack_size
    /\ m_runInScheduler' = IF gone THEN [m_runInScheduler EXCEPT ![f] = FALSE]
                           ELSE m_runInScheduler
    /\ resumed' = IF gone THEN [resumed EXCEPT ![f] = 0] ELSE resumed

\* ------------------------------------------------------- swapcontext

\* An execution that is continued returns from the swapcontext it was
\* suspended in and from the resume() or yield() around it.
\* (a continuation that starts its callback again from the beginning)
WakeAtEntry(p) == [p EXCEPT !.k = "user", !.f = NULL, !.left = IF p.cb = NoCb THEN 0 ELSE p.cb]
Wake(p) == [p EXCEPT !.k = "user", !.f = NULL]

\* What swapcontext leaves in save->m_ctx: the suspension of e, unless `save`
\* has been destroyed (a context written into freed memory is lost).
SaveCtx(save, e) == IF alive[save] = "live" THEN Saved(e) ELSE STALE

\* swapcontext(&save->m_ctx, &load->m_ctx) on thread t; susp is where the
\* running execution stands while it is suspended.  Decides m_ctx, cpu, pos,
\* cur and fatal.
SwapContext(t, save, load, susp) ==
    LET e == cpu[t]
        tgt == m_ctx[load]
    IN  IF save = load
        THEN \* the context just saved is the one loaded: the call returns at once
             /\ m_ctx' = [m_ctx EXCEPT ![save] = STALE]
             /\ UNCHANGED <<cpu, pos, cur, fatal>>
        ELSE IF tgt.k = "entry" /\ heap[load] = "allocated" /\ m_cb[load] # NoCb
        THEN \* MainFunc starts on the stack of `load`: cur = GetThis(); cur->m_cb()
             /\ m_ctx' = [m_ctx EXCEPT ![save] = SaveCtx(save, e), ![load] = STALE]
             /\ cpu' = [cpu EXCEPT ![t] = m_stack[load]]
             /\ pos' = [pos EXCEPT ![e] = susp, ![m_stack[load]] = User(m_cb[load])]
             /\ cur' = [cur EXCEPT ![load] = TRUE]
             /\ UNCHANGED fatal
        ELSE IF tgt.k = "saved" /\ pos[tgt.e].k \in {"in_resume", "in_yield"}
        THEN /\ m_ctx' = [m_ctx EXCEPT ![save] = SaveCtx(save, e), ![load] = STALE]
             /\ cpu' = [cpu EXCEPT ![t] = tgt.e]
             /\ pos' = [pos EXCEPT ![e] = susp, ![tgt.e] = Wake(pos[tgt.e])]
             /\ UNCHANGED <<cur, fatal>>
        ELSE \* a context whose frame no longer exists: undefined behaviour
             /\ fatal' = "ub"
             /\ UNCHANGED <<m_ctx, cpu, pos, cur>>

\* ------------------------------------------------------- construction

\* Fiber::Fiber(): the root fiber of thread t, in slot f.
RootCtor(t, f) ==
    /\ t_fiber' = [t_fiber EXCEPT ![t] = f]
    /\ m_state' = [m_state EXCEPT ![f] = RUNNING]
    /\ m_ctx' = [m_ctx EXCEPT ![f] = CTOR]
    /\ s_fiber_count' = CountUp(s_fiber_count)
    /\ m_id' = [m_id EXCEPT ![f] = TakeId(s_fiber_id)]
    /\ s_fiber_id' = NextId(s_fiber_id)
    /\ alive' = [alive EXCEPT ![f] = "live"]
    /\ home' = [home EXCEPT ![f] = t]
    /\ UNCHANGED <<m_stack_size, m_stack, m_cb, m_runInScheduler, heap>>

\* Fiber::GetThis() on thread t; keep says whether the caller keeps the
\* returned shared_ptr.
\* (a test that never finds a registered fiber)
ThisNeverRegistered(t) == FALSE
\* if (t_fiber)
ThisRegistered(t) == t_fiber[t] # NULL

GetThis(t, keep) ==
    /\ UserMode(t)
    /\ IF ThisRegistered(t)
       THEN /\ IF alive[t_fiber[t]] = "live"
               THEN /\ refs' = [refs EXCEPT ![t_fiber[t]] = IF keep THEN 1 ELSE @]
                    /\ UNCHANGED fatal
               ELSE /\ fatal' = "ub"    \* shared_from_this() of a destroyed object
                    /\ UNCHANGED refs
            /\ last' = Op("GetThis", t, t_fiber[t])
            /\ UNCHANGED <<s_fiber_count, s_fiber_id, t_fiber, t_thread_fiber, alive,
                           home, fields, heap>>
       ELSE /\ HasFreeSlot
            /\ MayConstruct(t)
            /\ last' = Op("GetThis", t, NewSlot)
            /\ RootCtor(t, NewSlot)
            /\ t_thread_fiber' = [t_thread_fiber EXCEPT ![t] = NewSlot]
            /\ refs' = [refs EXCEPT ![NewSlot] = IF keep THEN 1 ELSE 0]
            /\ UNCHANGED fatal
    /\ UNCHANGED <<cur, cpu, pos, hub, slots, resumed>>

\* Fiber::Fiber(cb, stack_size, run_in_scheduler) on thread t; the caller owns
\* the new fiber through one shared_ptr.
Create(t, cb, stack_size, run_in_scheduler) ==
    /\ UserMode(t)
    /\ HasFreeSlot
    /\ MayConstruct(t)
    /\ LET f == NewSlot
       IN  /\ m_id' = [m_id EXCEPT ![f] = TakeId(s_fiber_id)]
           /\ s_fiber_id' = NextId(s_fiber_id)
           /\ m_cb' = [m_cb EXCEPT ![f] = cb]
           /\ m_runInScheduler' = [m_runInScheduler EXCEPT ![f] = run_in_scheduler]
           /\ s_fiber_count' = CountUp(s_fiber_count)
           /\ m_stack_size' = [m_stack_size EXCEPT ![f] = StackSizeFor(stack_size)]
           /\ m_stack' = [m_stack EXCEPT ![f] = f]
           /\ heap' = [heap EXCEPT ![f] = "allocated"]
           /\ m_ctx' = [m_ctx EXCEPT ![f] = ENTRY]
           /\ m_state' = [m_state EXCEPT ![f] = READY]
           /\ alive' = [alive EXCEPT ![f] = "live"]
           /\ home' = [home EXCEPT ![f] = t]
           /\ refs' = [refs EXCEPT ![f] = 1]
           /\ pos' = [pos EXCEPT ![f] = Idle]
           /\ resumed' = [resumed EXCEPT ![f] = 0]
           /\ last' = OpA("Create", t, f, cb)
    /\ UNCHANGED <<t_fiber, t_thread_fiber, cur, cpu, hub, fatal, slots>>

\* ---------------------------------------------- Scheduler::GetMainFiber

\* The scheduler names the hub fiber of thread t: the thread's root fiber, or a
\* task fiber of its own that stays outside scheduling (run_in_scheduler =
\* false).  The scheduler keeps its reference to the hub (see Release).
SetMainFiber(t, f) ==
    /\ UserMode(t)
    /\ hub[t] = NULL
    /\ Reachable(t, f)
    /\ \/ f = t_thread_fiber[t]
       \/ m_stack[f] # NULL /\ ~m_runInScheduler[f] /\ refs[f] > 0
    /\ hub' = [hub EXCEPT ![t] = f]
    /\ last' = Op("SetMainFiber", t, f)
    /\ UNCHANGED <<s_fiber_count, s_fiber_id, t_fiber, t_thread_fiber, alive, home,
                   fields, refs, cur, heap, cpu, pos, fatal, slots, resumed>>

GetMainFiber(t) == hub[t]

\* The scheduler's calling pattern: once a thread has a hub, a fiber that takes
\* part in scheduling is resumed by the code of the hub only (the scheduling
\* loop), which runs on the thread's own stack when the hub is the root fiber.
HubExec(t) == IF m_stack[hub[t]] = NULL THEN ThreadStack(t) ELSE hub[t]
ResumedByScheduler(t, f) ==
    (m_stack[f] # NULL /\ m_runInScheduler[f] /\ hub[t] # NULL) => cpu[t] = HubExec(t)

\* ------------------------------------------------------- Fiber::resume

\* SYLAR_ASSERT(m_state != TERM && m_state != RUNNING)
\* (without the assertion)
ResumeAlwaysAllowed(st) == TRUE
ResumeAllowed(st) == st # TERM /\ st # RUNNING

\* The values a read of m_runInScheduler can give: the root constructor
\* never initialises the member.
RunInSchedulerValues(f) ==
    IF m_stack[f] = NULL THEN BOOLEAN ELSE {m_runInScheduler[f]}

\* The fiber whose m_ctx receives the caller's context.
ResumeAnchor(t, run_in_scheduler) ==
    IF run_in_scheduler THEN GetMainFiber(t) ELSE t_thread_fiber[t]

\* One more resume() of f has passed its assertion (counted for task fibers,
\* up to one more than any callback needs).
CountResume(f, n) ==
    IF m_stack[f] # NULL /\ n < MaxYields + 2 THEN n + 1 ELSE n

Resume(t, f) ==
    /\ UserMode(t)
    /\ Reachable(t, f)
    /\ ResumedByScheduler(t, f)
    /\ last' = Op("resume", t, f)
    /\ IF ~ResumeAllowed(m_state[f])
       THEN /\ fatal' = "assert"
            /\ UNCHANGED <<t_fiber, m_state, m_ctx, cpu, pos, cur, resumed>>
       ELSE \E ris \in RunInSchedulerValues(f) :
            /\ resumed' = [resumed EXCEPT ![f] = CountResume(f, @)]
            /\ t_fiber' = [t_fiber EXCEPT ![t] = f]
            /\ m_state' = [m_state EXCEPT ![f] = RUNNING]
            /\ IF ResumeAnchor(t, ris) = NULL
               THEN /\ fatal' = "segv"
                    /\ UNCHANGED <<m_ctx, cpu, pos, cur>>
               ELSE SwapContext(t, ResumeAnchor(t, ris), f,
                                In("in_resume", f, pos[cpu[t]], pos[cpu[t]].left))
    /\ UNCHANGED <<s_fiber_count, s_fiber_id, t_thread_fiber, alive, home, m_id,
                   m_stack_size, m_stack, m_cb, m_runInScheduler, refs, heap, hub, slots>>

\* -------------------------------------------------------- Fiber::yield

\* SYLAR_ASSERT(m_state == RUNNING || m_state == TERM)
YieldAllowed(st) == st = RUNNING \/ st = TERM

\* if (m_state != TERM) m_state = READY
\* (without the test)
YieldStateAlwaysReady(st) == READY
YieldState(st) == IF st # TERM THEN READY ELSE st

\* SetThis(t_thread_fiber.get())
\* (without the call)
YieldThisKept(t) == t_fiber[t]
YieldThis(t) == t_thread_fiber[t]

\* The fiber whose m_ctx yield() switches to.
YieldTarget(t, f) == t_thread_fiber[t]

\* The body of f->yield() on thread t.  Decides t_fiber, m_state, m_ctx, cpu,
\* pos, cur and fatal.
YieldBody(t, f, susp) ==
    IF ~YieldAllowed(m_state[f])
    THEN /\ fatal' = "assert"
         /\ UNCHANGED <<t_fiber, m_state, m_ctx, cpu, pos, cur>>
    ELSE /\ t_fiber' = [t_fiber EXCEPT ![t] = YieldThis(t)]
         /\ m_state' = [m_state EXCEPT ![f] = YieldState(m_state[f])]
         /\ IF YieldTarget(t, f) = NULL
            THEN /\ fatal' = "segv"
                 /\ UNCHANGED <<m_ctx, cpu, pos, cur>>
            ELSE SwapContext(t, f, YieldTarget(t, f), susp)

\* f->yield() called by the running code of thread t: on the current fiber
\* (GetThis()->yield()), on the fiber the code runs in, or, illegally, on a
\* fiber that is READY.  A callback of k yields calls yield() on its own fiber
\* k times.
Yield(t, f) ==
    /\ UserMode(t)
    /\ Reachable(t, f)
    /\ (f = t_fiber[t] \/ f = cpu[t] \/ m_state[f] = READY)
    /\ cpu[t] = f => pos[f].left > 0
    /\ last' = Op("yield", t, f)
    /\ YieldBody(t, f, In("in_yield", f, pos[cpu[t]],
                           IF cpu[t] = f THEN pos[f].left - 1 ELSE pos[cpu[t]].left))
    /\ UNCHANGED <<s_fiber_count, s_fiber_id, t_thread_fiber, alive, home, m_id,
                   m_stack_size, m_stack, m_cb, m_runInScheduler, refs, heap, hub, slots, resumed>>

\* ----------------------------------------------------- Fiber::MainFunc

\* The callback of the fiber running on thread t returns: cur->m_cb = nullptr;
\* cur->m_state = TERM; cur.reset(), which destroys the fiber when `cur` was
\* the last owner.
\* cur->m_cb = nullptr
\* (without the assignment)
ClearedCbKept(f) == m_cb[f]
ClearedCb(f) == NoCb

CallbackReturn(t) ==
    /\ fatal = "none"
    /\ cpu[t] \in Fibers
    /\ pos[cpu[t]].k = "user"
    /\ pos[cpu[t]].left = 0
    /\ LET f == cpu[t]
       IN  /\ m_cb' = [m_cb EXCEPT ![f] = ClearedCb(f)]
           /\ m_state' = [m_state EXCEPT ![f] = TERM]
           /\ cur' = [cur EXCEPT ![f] = FALSE]
           /\ pos' = [pos EXCEPT ![f] = In("epilogue", f, pos[f], 0)]
           /\ last' = Op("return", t, f)
           /\ IF StrongRefs(f, refs[f], FALSE, t_thread_fiber[home[f]]) = 0
              THEN Destroy(t, f, TERM) /\ Forget(f, TRUE)
              ELSE NoDestroy /\ Forget(f, FALSE)
    /\ UNCHANGED <<s_fiber_id, t_thread_fiber, home, m_id, m_stack, refs, cpu, hub, slots>>

\* What raw_ptr->yield() can do when the object behind raw_ptr is gone.
UseAfterFree(f) == IF alive[f] = "dead" THEN {"proceed", "crash"} ELSE {"proceed"}

\* raw_ptr->yield(), the last statement of MainFunc.
TerminalYield(t) ==
    /\ fatal = "none"
    /\ cpu[t] \in Fibers
    /\ pos[cpu[t]].k = "epilogue"
    /\ last' = Op("final_yield", t, cpu[t])
    /\ \E outcome \in UseAfterFree(cpu[t]) :
          IF outcome = "crash"
          THEN /\ fatal' = "ub"
               /\ UNCHANGED <<t_fiber, m_state, m_ctx, cpu, pos, cur>>
          ELSE YieldBody(t, cpu[t], IF alive[cpu[t]] = "live"
                                    THEN In("final", cpu[t], pos[cpu[t]], 0)
                                    ELSE Idle)
    /\ UNCHANGED <<s_fiber_count, s_fiber_id, t_thread_fiber, alive, home, m_id,
                   m_stack_size, m_stack, m_cb, m_runInScheduler, refs, heap, hub, slots, resumed>>

\* -------------------------------------------------------- Fiber::reset

\* SYLAR_ASSERT(m_stack); SYLAR_ASSERT(m_state == TERM)
ResetAllowed(stack, st) == stack # NULL /\ st = TERM

\* getcontext(&m_ctx), uc_stack = m_stack, makecontext(&m_ctx, &Fiber::MainFunc, 0)
\* (without rebinding the context)
ResetContextKept(f) == m_ctx[f]
ResetContext(f) == ENTRY

Reset(t, f, cb) ==
    /\ UserMode(t)
    /\ Reachable(t, f)
    /\ IF ~ResetAllowed(m_stack[f], m_state[f])
       THEN /\ fatal' = "assert"
            /\ last' = Op("reset", t, f)
            /\ UNCHANGED <<m_cb, m_ctx, m_state, pos, resumed>>
       ELSE /\ m_cb' = [m_cb EXCEPT ![f] = cb]
            /\ resumed' = [resumed EXCEPT ![f] = 0]
            /\ m_ctx' = [m_ctx EXCEPT ![f] = ResetContext(f)]
            /\ last' = OpA("reset", t, f, cb)
            /\ m_state' = [m_state EXCEPT ![f] = READY]
            /\ pos' = [pos EXCEPT ![m_stack[f]] = Idle]
            /\ UNCHANGED fatal
    /\ UNCHANGED <<s_fiber_count, s_fiber_id, t_fiber, t_thread_fiber, alive, home,
                   m_id, m_stack_size, m_stack, m_runInScheduler, refs, cur, heap,
                   cpu, hub, slots>>

\* --------------------------------------------------- Fiber::GetFiberId

\* if (t_fiber) return t_fiber->getId(); return 0;
GetFiberId(t) == IF t_fiber[t] # NULL THEN m_id[t_fiber[t]] ELSE 0

\* ------------------------------------------------ shared_ptr ownership

\* The running code of thread t drops the last of user code's references to f
\* (a fiber of any thread); the last owner of all runs the destructor.
Release(t, f) ==
    /\ UserMode(t)
    /\ alive[f] = "live"
    /\ refs[f] > 0
    /\ ~(hub[home[f]] = f /\ m_stack[f] # NULL /\ refs[f] = 1)
    /\ refs' = [refs EXCEPT ![f] = @ - 1]
    /\ last' = Op("release", t, f)
    /\ IF StrongRefs(f, refs[f] - 1, cur[f], t_thread_fiber[home[f]]) = 0
       THEN /\ Destroy(t, f, m_state[f])
            /\ Forget(f, DtorAssertsHold(m_stack[f], m_state[f], m_cb[f]))
            /\ m_cb' = IF DtorAssertsHold(m_stack[f], m_state[f], m_cb[f])
                       THEN [m_cb EXCEPT ![f] = NoCb] ELSE m_cb
            /\ pos' = IF m_stack[f] # NULL /\ DtorAssertsHold(m_stack[f], m_state[f], m_cb[f])
                      THEN [pos EXCEPT ![m_stack[f]] = Idle] ELSE pos
       ELSE /\ NoDestroy
            /\ UNCHANGED <<m_ctx, m_stack_size, m_runInScheduler, m_cb, pos, resumed>>
    /\ UNCHANGED <<s_fiber_id, t_thread_fiber, home, m_id, m_state, m_stack, cur, cpu, hub, slots>>

\* Thread t returns from its thread function: its thread_local t_thread_fiber
\* is destroyed, and with it the root fiber unless user code still owns it.
ThreadExit(t) ==
    /\ UserMode(t)
    /\ cpu[t] = ThreadStack(t)
    /\ cpu' = [cpu EXCEPT ![t] = 0]
    /\ t_thread_fiber' = [t_thread_fiber EXCEPT ![t] = NULL]
    /\ last' = Op("exit", t, t_thread_fiber[t])
    /\ IF t_thread_fiber[t] # NULL /\
          StrongRefs(t_thread_fiber[t], refs[t_thread_fiber[t]], FALSE, NULL) = 0
       THEN /\ Destroy(t, t_thread_fiber[t], m_state[t_thread_fiber[t]])
            /\ Forget(t_thread_fiber[t], fatal' = "none")
       ELSE /\ NoDestroy
            /\ UNCHANGED <<m_ctx, m_stack_size, m_runInScheduler, resumed>>
    /\ hub' = [hub EXCEPT ![t] = NULL]
    /\ UNCHANGED slots
    /\ UNCHANGED <<s_fiber_id, home, m_id, m_state, m_stack, m_cb, refs, cur, pos>>

\* ---------------------------------------------------------------- Next

\* What user code does with fibers.
Next ==
    \/ \E t \in Threads, keep \in BOOLEAN : GetThis(t, keep)
    \/ \E t \in Threads, cb \in Callbacks, sz \in StackSizes, ris \in BOOLEAN :
          Create(t, cb, sz, ris)
    \/ \E t \in Threads, f \in Fibers : Resume(t, f)
    \/ \E t \in Threads, f \in Fibers : Yield(t, f)
    \/ \E t \in Threads : CallbackReturn(t)
    \/ \E t \in Threads : TerminalYield(t)
    \/ \E t \in Threads, f \in Fibers, cb \in Callbacks : Reset(t, f, cb)
    \/ \E t \in Threads, f \in Fibers : Release(t, f)
    \/ \E t \in Threads : ThreadExit(t)

\* The same, with a scheduler that names a hub fiber.
NextSched ==
    \/ Next
    \/ \E t \in Threads, f \in Fibers : SetMainFiber(t, f)

Spec == Init /\ [][Next]_vars

SpecSched == InitSched /\ [][NextSched]_vars

\* One thread, its root fiber and two task fibers, no scheduler.
SpecPair == InitPair /\ [][Next]_vars

\* ================================================================ claims

Constructed == {f \in Fibers : alive[f] # "unborn"}
Live == {f \in Fibers : alive[f] = "live"}
\* The task fibers ever constructed (m_stack is kept for the record).
Tasks == {f \in Fibers : m_stack[f] # NULL}
Switched(t) == cpu'[t] # cpu[t]

C2_ResumeBlocks ==
    [][/\ \A f \in Fibers :
             (last'.op = "resume" /\ last'.f = f /\ fatal' = "none" /\ m_state[f] = READY)
                => m_state'[f] = RUNNING /\ t_fiber'[last'.t] = f
       /\ \A e \in Execs :
             (pos[e].k = "in_resume" /\ pos'[e].k = "user")
                => m_state'[pos[e].f] \in {READY, TERM}]_vars

\* C3: when a yield() of fiber f switches, control goes to the execution that
\* is waiting inside resume() of f.
C3_YieldReturnsToResumer ==
    [][\A t \in Threads :
          (last'.op \in {"yield", "final_yield"} /\ last'.t = t /\ fatal' = "none"
              /\ Switched(t))
             => pos[cpu'[t]].k = "in_resume" /\ pos[cpu'[t]].f = last'.f]_vars

\* C4: after a yield() that has switched, the fiber is Ready when it was
\* Running, still Term when MainFunc yielded for it, and the current fiber of the
\* thread is the thread's root fiber.
C4_YieldEffect ==
    (last.op \in {"yield", "final_yield"} /\ fatal = "none") =>
        /\ t_fiber[last.t] # NULL
        /\ t_fiber[last.t] = t_thread_fiber[last.t]
        /\ m_stack[t_fiber[last.t]] = NULL
        /\ m_state[last.f] = IF last.op = "yield" THEN READY ELSE TERM

\* MainFunc has yielded for a finished fiber and the thread runs its root again.
C4_Witness ==
    /\ last.op = "final_yield"
    /\ fatal = "none"
    /\ alive[last.f] = "live"
    /\ m_state[last.f] = TERM
    /\ cpu[last.t] = ThreadStack(last.t)

\* C5: a fiber whose callback calls no yield() becomes Term when the callback
\* returns, only then, and the yield() of MainFunc hands control to the caller
\* of its resume().
C5_ReturnsToCaller ==
    [][\A f \in Tasks :
          /\ (m_state[f] # TERM /\ m_state'[f] = TERM)
                => last'.op = "return" /\ last'.f = f /\ m_cb'[f] = NoCb
          /\ (last'.op = "final_yield" /\ last'.f = f /\ pos[f].cb = 0 /\ fatal' = "none")
                => /\ m_state'[f] = TERM
                   /\ pos[cpu'[last'.t]].k = "in_resume"
                   /\ pos[cpu'[last'.t]].f = f]_vars

\* C6: reset(cb) of a Term fiber with a stack makes it Ready with cb installed and
\* the context bound to MainFunc again, changes neither its id, stack, stack
\* size, flag nor the two counters, and the next resume() starts cb afresh.
C6_ResetEffect ==
    [][\A f \in Fibers :
          /\ (last'.op = "reset" /\ last'.f = f /\ fatal' = "none")
                => /\ m_state[f] = TERM /\ m_stack[f] # NULL
                   /\ m_state'[f] = READY
                   /\ m_cb'[f] = last'.arg /\ last'.arg \in Callbacks
                   /\ m_ctx'[f] = ENTRY
                   /\ m_id'[f] = m_id[f]
                   /\ m_stack'[f] = m_stack[f]
                   /\ m_stack_size'[f] = m_stack_size[f]
                   /\ m_runInScheduler'[f] = m_runInScheduler[f]
                   /\ heap' = heap
                   /\ s_fiber_count' = s_fiber_count
                   /\ s_fiber_id' = s_fiber_id
          /\ (last.op = "reset" /\ last.f = f /\ fatal = "none"
                /\ last'.op = "resume" /\ last'.f = f /\ fatal' = "none")
                => /\ cpu'[last'.t] = f
                   /\ pos'[f] = User(last.arg)]_vars

\* A finished fiber has been reset: Ready, new callback, fresh context, same stack.
C6_Witness ==
    /\ last.op = "reset"
    /\ fatal = "none"
    /\ m_state[last.f] = READY
    /\ m_cb[last.f] = last.arg
    /\ m_ctx[last.f] = ENTRY
    /\ heap[m_stack[last.f]] = "allocated"

\* C7: the live-fiber counter is the number of fibers constructed and not yet
\* destroyed, whatever the threads have done, and a fiber just created is Ready.
C7_LiveCount ==
    /\ s_fiber_count = Cardinality(Live)
    /\ last.op = "Create" => m_state[last.f] = READY /\ alive[last.f] = "live"

\* A fiber of one thread has been destroyed while one of the other thread lives.
C7_Witness ==
    /\ fatal = "none"
    /\ s_fiber_count = 1
    /\ \E f, g \in Fibers : alive[f] = "dead" /\ alive[g] = "live" /\ home[f] # home[g]

\* C8: the ids of the fibers constructed so far, root and task, on any thread,
\* are 0, 1, 2, ... in the order of construction (slots are handed out in that
\* order), hence distinct and never changed, and all below the generator.
C8_Ids ==
    /\ \A f, g \in Constructed : f < g => m_id[f] < m_id[g]
    /\ \A f \in Constructed : m_id[f] >= 0 /\ m_id[f] < s_fiber_id
    /\ s_fiber_id = Cardinality(Constructed)

\* A root fiber of one thread and a task fiber of the other have their ids.
C8_Witness ==
    \E f, g \in Constructed :
        /\ home[f] # home[g]
        /\ m_stack[f] = NULL
        /\ m_stack[g] # NULL
        /\ m_id[f] # m_id[g]

\* C9: a task fiber's stack is its own block, allocated while the fiber lives,
\* freed only by the destruction of the fiber in state Term and never twice; the
\* destruction of a fiber that is not Term aborts with the stack still allocated.
C9_Stack ==
    \A f \in Tasks :
        /\ m_stack[f] = f
        /\ heap[f] \in {"allocated", "freed"}
        /\ alive[f] = "live" => heap[f] = "allocated"
        /\ heap[f] = "freed" => alive[f] = "dead" /\ m_state[f] = TERM
        /\ (alive[f] = "dead" /\ m_state[f] # TERM) => heap[f] = "allocated" /\ fatal = "assert"

\* The last reference to a finished fiber was released: the fiber is destroyed
\* and its stack freed.
C9_Witness ==
    /\ last.op = "release"
    /\ fatal = "none"
    /\ heap[last.f] = "freed"
    /\ alive[last.f] = "dead"

\* C10: no stack is released while a thread is still running on it.
C10_StackOutlivesCode ==
    \A t \in Threads :
        cpu[t] \in Fibers => alive[cpu[t]] = "live" /\ heap[cpu[t]] = "allocated"

\* The fiber whose code runs on thread t: the root fiber while the thread is on
\* its own stack, else the task fiber whose stack it is on.
Executing(t) == IF cpu[t] = ThreadStack(t) THEN t_thread_fiber[t] ELSE cpu[t]

\* C11: on a running thread that has a registered fiber, the registered current
\* fiber is the one fiber whose code is executing, whoever called resume().
C11_OneCurrent ==
    \A t \in Threads :
        (fatal = "none" /\ cpu[t] # 0 /\ t_thread_fiber[t] # NULL)
            => t_fiber[t] # NULL /\ t_fiber[t] = Executing(t)

\* The live root fibers constructed on thread t.
Roots(t) == {f \in Fibers : alive[f] = "live" /\ m_stack[f] = NULL /\ home[f] = t}

\* C12: GetThis() on a thread without a registered fiber constructs the root
\* fiber (no stack, no callback, Running), registers it and stores it as the
\* thread's root; with a registered fiber it returns that fiber and changes no
\* fiber, counter or registration.  No thread ever has two root fibers.
C12_GetThis ==
    [][/\ \A t \in Threads :
             (last'.op = "GetThis" /\ last'.t = t /\ fatal' = "none") =>
                IF t_fiber[t] = NULL
                THEN /\ alive[last'.f] = "unborn" /\ alive'[last'.f] = "live"
                     /\ m_stack'[last'.f] = NULL
                     /\ m_cb'[last'.f] = NoCb
                     /\ m_state'[last'.f] = RUNNING
                     /\ t_fiber'[t] = last'.f
                     /\ t_thread_fiber'[t] = last'.f
                     /\ s_fiber_count' = s_fiber_count + 1
                     /\ s_fiber_id' = s_fiber_id + 1
                ELSE /\ last'.f = t_fiber[t]
                     /\ UNCHANGED <<s_fiber_count, s_fiber_id, t_fiber, t_thread_fiber,
                                    alive, home, fields, heap>>
       /\ \A t \in Threads : Cardinality({f \in Fibers : alive'[f] = "live"
                                 /\ m_stack'[f] = NULL /\ home'[f] = t}) <= 1]_vars

\* GetThis() called inside a running task fiber, on a thread that has its root
\* fiber, has returned the task fiber.
C12_Witness ==
    /\ last.op = "GetThis"
    /\ fatal = "none"
    /\ m_stack[last.f] # NULL
    /\ t_fiber[last.t] = last.f
    /\ refs[last.f] = 1
    /\ Roots(last.t) = {t_thread_fiber[last.t]}
    /\ s_fiber_count = Cardinality(Live)

\* C13: GetFiberId() gives 0 on a thread with no registered fiber, the root
\* fiber's id while the root is current, and the id of the task fiber whose
\* callback is running while one is.
C13_GetFiberId ==
    \A t \in Threads :
        (fatal = "none" /\ cpu[t] # 0) =>
            /\ t_fiber[t] = NULL => GetFiberId(t) = 0
            /\ (t_fiber[t] # NULL /\ t_fiber[t] = t_thread_fiber[t] /\ cpu[t] = ThreadStack(t))
                  => GetFiberId(t) = m_id[t_thread_fiber[t]]
            /\ (cpu[t] \in Fibers /\ pos[cpu[t]].k = "user")
                  => GetFiberId(t) = m_id[cpu[t]]

\* What an aborted call must leave alone: every fiber, both registrations, the
\* counters, the heap and where each execution stands.
Untouched ==
    UNCHANGED <<s_fiber_count, s_fiber_id, t_fiber, t_thread_fiber, alive, home,
                fields, refs, cur, heap, cpu, pos, hub, resumed>>

\* C14: resume() of a Running or Term fiber, yield() of a Ready fiber and
\* reset() of a fiber without a stack or not Term fail their assertion, and
\* nothing has been modified when they do.
C14_IllegalAborts ==
    [][\A f \in Fibers :
          /\ (last'.op = "resume" /\ last'.f = f /\ m_state[f] \in {RUNNING, TERM})
                => fatal' = "assert" /\ Untouched
          /\ (last'.op = "yield" /\ last'.f = f /\ m_state[f] = READY)
                => fatal' = "assert" /\ Untouched
          /\ (last'.op = "reset" /\ last'.f = f /\ (m_stack[f] = NULL \/ m_state[f] # TERM))
                => fatal' = "assert" /\ Untouched]_vars

\* resume() was called on a finished fiber and the process aborted with the
\* fiber still Term and the caller's registration in place.
C14_Witness ==
    /\ last.op = "resume"
    /\ fatal = "assert"
    /\ m_state[last.f] = TERM
    /\ m_cb[last.f] = NoCb
    /\ t_fiber[last.t] # last.f

\* C15: the destructor of a root fiber aborts unless the fiber is Running with
\* no callback; otherwise it clears the current-fiber registration of the
\* thread that runs it exactly when that registration is the fiber destroyed.
\* The destructor of a task fiber leaves every registration alone.
C15_RootDestruction ==
    [][\A f \in Fibers :
          (alive[f] = "live" /\ alive'[f] = "dead") =>
             IF m_stack[f] # NULL
             THEN t_fiber' = t_fiber
             ELSE IF m_state[f] = RUNNING /\ m_cb[f] = NoCb
             THEN /\ fatal' = fatal
                  /\ t_fiber' = IF t_fiber[last'.t] = f
                                THEN [t_fiber EXCEPT ![last'.t] = NULL]
                                ELSE t_fiber
             ELSE /\ fatal' = "assert"
                  /\ t_fiber' = t_fiber]_vars

\* A thread has exited and the destructor of its root fiber, which was the
\* registered current fiber, has cleared the registration.
C15_Witness ==
    /\ last.op = "exit"
    /\ fatal = "none"
    /\ last.f # NULL
    /\ alive[last.f] = "dead"
    /\ m_stack[last.f] = NULL
    /\ t_fiber[last.t] = NULL

\* C16: a resume() of a fiber that has yielded continues its callback where it
\* yielded, with the steps still to come and none run again; after the j-th
\* yield() of its callback the fiber is Ready and has been resumed j times, and
\* a fiber whose callback yields k times becomes Term during its (k+1)-th
\* resume(), with no yield left.
C16_ResumeContinues ==
    [][\A f \in Tasks :
          /\ (last'.op = "resume" /\ last'.f = f /\ fatal' = "none"
                /\ pos[f].k = "in_yield" /\ pos[f].f = f)
                => /\ cpu'[last'.t] = f
                   /\ pos'[f].k = "user"
                   /\ pos'[f].left = pos[f].left
                   /\ pos'[f].cb = pos[f].cb
          /\ (last'.op = "yield" /\ last'.f = f /\ fatal' = "none" /\ cpu[last'.t] = f)
                => /\ m_state'[f] = READY
                   /\ pos'[f].left = pos[f].left - 1
                   /\ resumed[f] = pos[f].cb - pos'[f].left
          /\ (m_state[f] # TERM /\ m_state'[f] = TERM)
                => /\ pos[f].left = 0
                   /\ resumed[f] = pos[f].cb + 1]_vars

\* C17: a resume() or yield() of one task fiber changes neither the state, the
\* saved context nor the callback of any other task fiber that is not its
\* caller nor the fiber control passes to, and whatever happens to other fibers
\* in between, a fiber whose callback yields k times comes back Ready from its
\* first k resumes and Term from the next one (A Ready, B Ready, A Term, B Term
\* for two fibers with one yield each that are resumed in turn).
C17_Alternation ==
    [][\A f \in Tasks :
          (last'.op \in {"resume", "yield", "final_yield"} /\ last'.f = f) =>
             /\ \A g \in Tasks \ {f, cpu[last'.t], cpu'[last'.t]} :
                   /\ m_state'[g] = m_state[g]
                   /\ m_ctx'[g] = m_ctx[g]
                   /\ m_cb'[g] = m_cb[g]
                   /\ pos'[g] = pos[g]
             /\ (last'.op # "resume" /\ fatal' = "none" /\ cpu[last'.t] = f
                   /\ alive'[f] = "live" /\ cpu'[last'.t] = ThreadStack(last'.t))
                   => m_state'[f] = IF resumed[f] <= pos[f].cb THEN READY ELSE TERM]_vars

\* Of two fibers of one thread, each with one yield, one has been resumed twice
\* and has finished while the other, resumed once, is still suspended at its
\* yield.
C17_Witness ==
    \E a, b \in Tasks :
        /\ a # b /\ home[a] = home[b]
        /\ last.op = "final_yield" /\ last.f = a /\ fatal = "none"
        /\ alive[a] = "live" /\ alive[b] = "live"
        /\ pos[a].cb = 1 /\ resumed[a] = 2 /\ m_state[a] = TERM
        /\ pos[b].cb = 1 /\ resumed[b] = 1 /\ m_state[b] = READY
        /\ pos[b].k = "in_yield" /\ m_ctx[b] = Saved(b)
        /\ cpu[last.t] = ThreadStack(last.t)

\* A step in which MainFunc of f starts: its callback is invoked.
Invoked(f) == pos[f].k = "none" /\ pos'[f].k = "user"

\* C18: every live task fiber in state TERM has an empty callback; the step in
\* which a callback returns clears it; a callback is invoked only by the first
\* resume() after it was installed by the constructor or by reset(), so at most
\* once, and the callback that is invoked is the one installed last.
C18_CallbackCleared ==
    [][\A f \in Tasks :
          /\ (alive'[f] = "live" /\ m_state'[f] = TERM) => m_cb'[f] = NoCb
          /\ (last'.op = "return" /\ last'.f = f) => m_cb'[f] = NoCb
          /\ Invoked(f) =>
                /\ last'.op = "resume" /\ last'.f = f
                /\ resumed[f] = 0
                /\ m_cb[f] # NoCb
                /\ pos'[f].cb = m_cb[f]
          /\ (last'.op = "reset" /\ last'.f = f /\ fatal' = "none") =>
                /\ m_cb'[f] = last'.arg
                /\ resumed'[f] = 0
                /\ pos'[f].k = "none"]_vars

\* A fiber whose callback has returned, and was cleared, has just been given
\* a callback with a yield by reset() and waits for the resume() that starts it.
C18_Witness ==
    \E f \in Tasks :
        /\ last.op = "reset" /\ last.f = f /\ fatal = "none"
        /\ last.arg = MaxYields
        /\ alive[f] = "live"
        /\ m_state[f] = READY /\ m_cb[f] = MaxYields
        /\ m_ctx[f] = ENTRY /\ resumed[f] = 0
        /\ pos[f].k = "none"

\* C19: from its construction to its destruction a root fiber has no stack and
\* no callback and is in state RUNNING, also while a task fiber is RUNNING.
C19_RootRunning ==
    \A f \in Live :
        m_stack[f] = NULL => /\ m_cb[f] = NoCb
                             /\ m_stack_size[f] = 0
                             /\ heap[f] = "none"
                             /\ m_state[f] = RUNNING

\* C20: every resume() or yield() that passes its assertion, and so goes on to
\* swapcontext, runs on a thread whose root fiber exists: t_thread_fiber is
\* set and names a live fiber, and the call dereferences no null pointer.
C20_RootExists ==
    [][(last'.op \in {"resume", "yield", "final_yield"} /\ fatal' # "assert") =>
          /\ t_thread_fiber[last'.t] # NULL
          /\ alive[t_thread_fiber[last'.t]] = "live"
          /\ fatal' # "segv"]_vars

=============================================================================
